---- MODULE Spec2Model ----
(***************************************************************************)
(* A model of src/main.rs: parse_logs_data fetches the PoolCreated logs of *)
(* the factory, decodes each one, resolves the name and the symbol of both *)
(* tokens through the token_infos map, serializes one PoolInfo per decoded *)
(* entry to a csv writer and finally writes pools.csv.                     *)
(***************************************************************************)
EXTENDS Integers, Sequences, FiniteSets, TLC

\* The longest log sequence the chain returns in the model.
MaxLogs == 3

----------------------------------------------------------------------------
\* Values

\* H160::default(), the value of an address field that was never assigned.
ZeroAddr == "0x0"

\* The token contracts that appear in the logs of the model.
TokenAddrs == {"A", "B", "C"}

AllAddrs == TokenAddrs \cup {ZeroAddr}

\* What the token contract of an address answers to "name" and "symbol".
ContractName(addr) == "Token" \o addr

ContractSymbol(addr) == "SYM" \o addr

\* topics[0] of a PoolCreated log: the hash of the event's signature.
PoolCreatedSig == "PoolCreated(address,address,uint24,int24,address)"

\* The value of a local that has not been assigned yet.
Unset == "<unset>"

\* Option<U64>: <<>> is None, <<n>> is Some(n).
None == <<>>

Some(v) == <<v>>

\* The parameters of the event, as parse_logs_data declares them.
EventParams ==
    << [name |-> "token0",      kind |-> "address", indexed |-> TRUE],
       [name |-> "token1",      kind |-> "address", indexed |-> TRUE],
       [name |-> "fee",         kind |-> "uint",    indexed |-> TRUE],
       [name |-> "tickSpacing", kind |-> "int",     indexed |-> FALSE],
       [name |-> "pool",        kind |-> "address", indexed |-> FALSE] >>

\* The raw log entries the chain may return.  The first four match the
\* event; the others do not (a missing topic, a short data payload, the
\* signature of another event).
RawLogs ==
    { [topics |-> <<PoolCreatedSig, "A", "B", 500>>,
       data |-> <<10, "P1">>, block_number |-> Some(7)],
      [topics |-> <<PoolCreatedSig, "B", "C", 3000>>,
       data |-> <<60, "P2">>, block_number |-> None],
      [topics |-> <<PoolCreatedSig, "A", "A", 500>>,
       data |-> <<10, "P3">>, block_number |-> Some(9)],
      [topics |-> <<PoolCreatedSig, "A", "B", 500>>,
       data |-> <<10, "P1">>, block_number |-> Some(8)],
      [topics |-> <<PoolCreatedSig, "A", "B">>,
       data |-> <<10, "P4">>, block_number |-> Some(7)],
      [topics |-> <<PoolCreatedSig, "B", "C", 3000>>,
       data |-> <<60>>, block_number |-> Some(8)],
      [topics |-> <<"Transfer(address,address,uint256)", "A", "B", 500>>,
       data |-> <<10, "P5">>, block_number |-> Some(9)] }

LogSeqs == UNION { [1..n -> RawLogs] : n \in 0..MaxLogs }

----------------------------------------------------------------------------
\* Pure functions

Indexed == SelectSeq(EventParams, LAMBDA p : p.indexed)

NotIndexed == SelectSeq(EventParams, LAMBDA p : ~p.indexed)

\* Event::parse_log of a non-anonymous event: the first topic is the
\* signature, one topic follows per indexed parameter, the data holds one
\* word per other parameter.  Ok carries the parameters by name, in the
\* order the event declares them.
parse_log(raw) ==
    IF /\ Len(raw.topics) = Len(Indexed) + 1
       /\ raw.topics[1] = PoolCreatedSig
       /\ Len(raw.data) = Len(NotIndexed)
    THEN [ok |-> TRUE,
          params |->
            [k \in 1..Len(EventParams) |->
               [name |-> EventParams[k].name,
                kind |-> EventParams[k].kind,
                value |-> IF k <= Len(Indexed)
                          THEN raw.topics[k + 1]
                          ELSE raw.data[k - Len(Indexed)]]]]
    ELSE [ok |-> FALSE, params |-> <<>>]

\* Token::into_address, into_uint, into_int: Some for a token of that kind.
into_kind(param, kind) == IF param.kind = kind THEN Some(param.value) ELSE None

\* Option::unwrap
unwrap(opt) == opt[1]

\* PoolCreatedEvent::default()
DefaultEvent ==
    [token0 |-> ZeroAddr, token1 |-> ZeroAddr, fee |-> 0, tick_spacing |-> 0,
     pool |-> ZeroAddr, block_number |-> 0]

\* One turn of from_log's loop: the match on the parameter's name.
apply_param(ev, param) ==
    CASE param.name = "token0" ->
           [ev EXCEPT !.token0 = unwrap(into_kind(param, "address"))]
      [] param.name = "token1" ->
           [ev EXCEPT !.token1 = unwrap(into_kind(param, "address"))]
      [] param.name = "fee" ->
           [ev EXCEPT !.fee = unwrap(into_kind(param, "uint"))]
      [] param.name = "tick_spacing" ->
           [ev EXCEPT !.tick_spacing = unwrap(into_kind(param, "int"))]
      [] param.name = "pool" ->
           [ev EXCEPT !.pool = unwrap(into_kind(param, "address"))]
      [] OTHER -> ev

RECURSIVE from_log_loop(_, _, _)
from_log_loop(ev, params, k) ==
    IF k > Len(params) THEN ev
    ELSE from_log_loop(apply_param(ev, params[k]), params, k + 1)

\* PoolCreatedEvent::from_log
from_log(params) == from_log_loop(DefaultEvent, params, 1)

BlockNumberAlwaysZero(raw) == 0

\* log.block_number.unwrap_or(U64::from(0))
block_number_of(raw) ==
    IF raw.block_number = None THEN 0 ELSE raw.block_number[1]

UnwrapAlwaysDefault(res) == ""

\* Result<String, _>::unwrap_or_default in get_token_info's caller
unwrap_or_default(res) == IF res.ok THEN res.value ELSE ""

\* What contract.query may return for a method of a token contract.
QueryResults(addr, method) ==
    { [ok |-> TRUE,
       value |-> IF method = "name" THEN ContractName(addr)
                 ELSE ContractSymbol(addr)],
      [ok |-> FALSE, value |-> Unset] }

TokenInfoSymbolFromName(name, symbol, addr) ==
    [name |-> name, symbol |-> name, address |-> addr]

\* The TokenInfo get_token_info returns.
TokenInfoOf(name, symbol, addr) ==
    [name |-> name, symbol |-> symbol, address |-> addr]

NeedsResolveAlways(infos, addr) == TRUE

NeedsResolveInverted(infos, addr) == addr \in DOMAIN infos

\* !token_infos.contains_key(&addr)
NeedsResolve(infos, addr) == addr \notin DOMAIN infos

InsertDroppingOthers(infos, addr, info) == [a \in {addr} |-> info]

\* token_infos.insert(addr, info)
MapInsert(infos, addr, info) ==
    [a \in DOMAIN infos \cup {addr} |-> IF a = addr THEN info ELSE infos[a]]

\* Whether all four token_infos.get(..).unwrap() of from_pool_created_event
\* find their key.
lookups_succeed(ev, infos) ==
    ev.token0 \in DOMAIN infos /\ ev.token1 \in DOMAIN infos

\* PoolInfo::from_pool_created_event
from_pool_created_event(ev, infos) ==
    [pool_addr |-> ev.pool,
     token0_name |-> infos[ev.token0].name,
     token1_name |-> infos[ev.token1].name,
     token0_symbol |-> infos[ev.token0].symbol,
     token1_symbol |-> infos[ev.token1].symbol,
     fee |-> ev.fee,
     token0_addr |-> ev.token0,
     token1_addr |-> ev.token1,
     block_number |-> ev.block_number]

\* The header csv derives from PoolInfo: its field names, in order.
PoolInfoHeader ==
    <<"pool_addr", "token0_name", "token0_symbol", "token1_name",
      "token1_symbol", "fee", "token0_addr", "token1_addr", "block_number">>

HeaderLine == [kind |-> "header", names |-> PoolInfoHeader, rec |-> <<>>]

RecordLine(rec) == [kind |-> "record", names |-> <<>>, rec |-> rec]

WriterWithEagerHeader == [wrote_header |-> TRUE, buf |-> <<HeaderLine>>]

\* Writer::from_writer(vec![]): nothing is written before the first record.
NewWriter == [wrote_header |-> FALSE, buf |-> <<>>]

SerializePrepending(w, rec) ==
    [wrote_header |-> TRUE,
     buf |-> <<RecordLine(rec)>> \o
             (IF w.wrote_header THEN w.buf ELSE <<HeaderLine>>)]

\* Writer::serialize: the header goes out with the first record.
writer_serialize(w, rec) ==
    [wrote_header |-> TRUE,
     buf |-> (IF w.wrote_header THEN w.buf ELSE <<HeaderLine>>)
             \o <<RecordLine(rec)>>]

LoopDoneAlways(idx, logs) == TRUE

\* The for loop of parse_logs_data is over: the iterator has no entry left.
LoopDone(idx, logs) == idx = Len(logs)

----------------------------------------------------------------------------
\* State

VARIABLES
    pc,           \* where parse_logs_data stands
    chain,        \* the log entries the node holds for the filter
    l,            \* the fetched entries (logs.logs().await)
    i,            \* how many entries the loop has consumed
    pce,          \* the event decoded from entry i + 1
    token_infos,  \* HashMap<H160, TokenInfo>
    writer,       \* the csv writer over an in-memory buffer
    ti,           \* the locals of the get_token_info call in progress
    pools_csv,    \* the content of pools.csv
    fs_writes,    \* how many times fs::write ran
    resolved,     \* the addresses get_token_info was called for, in order
    callLog       \* the contract queries issued, in order, with their outcome

vars == <<pc, chain, l, i, pce, token_infos, writer, ti, pools_csv,
          fs_writes, resolved, callLog>>

NoCall == [addr |-> ZeroAddr, slot |-> 0, name |-> Unset, symbol |-> Unset]

EmptyMap == [a \in {} |-> TokenInfoOf(Unset, Unset, ZeroAddr)]

Init ==
    /\ pc = "create_filter"
    /\ chain \in LogSeqs
    /\ l = <<>>
    /\ i = 0
    /\ pce = DefaultEvent
    /\ token_infos = EmptyMap
    /\ writer = NewWriter
    /\ ti = NoCall
    /\ pools_csv = <<>>
    /\ fs_writes = 0
    /\ resolved = <<>>
    /\ callLog = <<>>

----------------------------------------------------------------------------
\* Steps of parse_logs_data

\* create_logs_filter(filter).await.unwrap(), the node accepts the filter.
CreateLogsFilterOk ==
    /\ pc = "create_filter"
    /\ pc' = "fetch_logs"
    /\ UNCHANGED <<chain, l, i, pce, token_infos, writer, ti, pools_csv,
                   fs_writes, resolved, callLog>>

\* create_logs_filter(filter).await.unwrap(), the call fails: panic.
CreateLogsFilterErr ==
    /\ pc = "create_filter"
    /\ pc' = "aborted"
    /\ UNCHANGED <<chain, l, i, pce, token_infos, writer, ti, pools_csv,
                   fs_writes, resolved, callLog>>

\* logs.logs().await.unwrap(), then the map and the writer are created.
FetchLogsOk ==
    /\ pc = "fetch_logs"
    /\ l' = chain
    /\ token_infos' = EmptyMap
    /\ writer' = NewWriter
    /\ pc' = "loop"
    /\ UNCHANGED <<chain, i, pce, ti, pools_csv, fs_writes, resolved, callLog>>

\* logs.logs().await.unwrap(), the call fails: panic.
FetchLogsErr ==
    /\ pc = "fetch_logs"
    /\ pc' = "aborted"
    /\ UNCHANGED <<chain, l, i, pce, token_infos, writer, ti, pools_csv,
                   fs_writes, resolved, callLog>>

\* The head of the loop body: parse_log, then on Err print and continue,
\* on Ok from_log and the block number of the raw entry.
ParseEntry ==
    /\ pc = "loop"
    /\ i < Len(l)
    /\ LET log == l[i + 1]
           lr == parse_log(log)
       IN IF lr.ok
          THEN /\ pce' = [from_log(lr.params)
                            EXCEPT !.block_number = block_number_of(log)]
               /\ pc' = "check0"
               /\ UNCHANGED i
          ELSE /\ i' = i + 1
               /\ pc' = "loop"
               /\ UNCHANGED pce
    /\ UNCHANGED <<chain, l, token_infos, writer, ti, pools_csv, fs_writes,
                   resolved, callLog>>

\* if !token_infos.contains_key(&pce.token0) { get_token_info(..) .. }
CheckToken0 ==
    /\ pc = "check0"
    /\ IF NeedsResolve(token_infos, pce.token0)
       THEN /\ ti' = [NoCall EXCEPT !.addr = pce.token0, !.slot = 0]
            /\ resolved' = Append(resolved, pce.token0)
            /\ pc' = "name"
       ELSE /\ pc' = "check1"
            /\ UNCHANGED <<ti, resolved>>
    /\ UNCHANGED <<chain, l, i, pce, token_infos, writer, pools_csv,
                   fs_writes, callLog>>

\* if !token_infos.contains_key(&pce.token1) { get_token_info(..) .. }
CheckToken1 ==
    /\ pc = "check1"
    /\ IF NeedsResolve(token_infos, pce.token1)
       THEN /\ ti' = [NoCall EXCEPT !.addr = pce.token1, !.slot = 1]
            /\ resolved' = Append(resolved, pce.token1)
            /\ pc' = "name"
       ELSE /\ pc' = "build"
            /\ UNCHANGED <<ti, resolved>>
    /\ UNCHANGED <<chain, l, i, pce, token_infos, writer, pools_csv,
                   fs_writes, callLog>>

\* let token_name: String = caller(&token_contract, "name").await;
CallName ==
    /\ pc = "name"
    /\ \E res \in QueryResults(ti.addr, "name") :
         /\ ti' = [ti EXCEPT !.name = unwrap_or_default(res)]
         /\ callLog' = Append(callLog,
                [addr |-> ti.addr, method |-> "name", res |-> res])
    /\ pc' = "symbol"
    /\ UNCHANGED <<chain, l, i, pce, token_infos, writer, pools_csv,
                   fs_writes, resolved>>

\* let token_symbol: String = caller(&token_contract, "symbol").await;
CallSymbol ==
    /\ pc = "symbol"
    /\ \E res \in QueryResults(ti.addr, "symbol") :
         /\ ti' = [ti EXCEPT !.symbol = unwrap_or_default(res)]
         /\ callLog' = Append(callLog,
                [addr |-> ti.addr, method |-> "symbol", res |-> res])
    /\ pc' = "insert"
    /\ UNCHANGED <<chain, l, i, pce, token_infos, writer, pools_csv,
                   fs_writes, resolved>>

\* get_token_info returns its TokenInfo and token_infos.insert stores it.
InsertTokenInfo ==
    /\ pc = "insert"
    /\ token_infos' = MapInsert(token_infos, ti.addr,
                                TokenInfoOf(ti.name, ti.symbol, ti.addr))
    /\ pc' = IF ti.slot = 0 THEN "check1" ELSE "build"
    /\ ti' = NoCall
    /\ UNCHANGED <<chain, l, i, pce, writer, pools_csv, fs_writes, resolved,
                   callLog>>

\* PoolInfo::from_pool_created_event and writer.serialize(pool_info); a
\* token_infos.get(..).unwrap() on a missing key panics.
BuildRecord ==
    /\ pc = "build"
    /\ IF lookups_succeed(pce, token_infos)
       THEN /\ writer' = writer_serialize(writer,
                            from_pool_created_event(pce, token_infos))
            /\ i' = i + 1
            /\ pce' = DefaultEvent
            /\ pc' = "loop"
       ELSE /\ pc' = "aborted"
            /\ UNCHANGED <<writer, i, pce>>
    /\ UNCHANGED <<chain, l, token_infos, ti, pools_csv, fs_writes, resolved,
                   callLog>>

\* After the loop: writer.into_inner() and fs::write("pools.csv", csv_data).
WriteFile ==
    /\ pc = "loop"
    /\ LoopDone(i, l)
    /\ pools_csv' = writer.buf
    /\ fs_writes' = fs_writes + 1
    /\ pc' = "done"
    /\ UNCHANGED <<chain, l, i, pce, token_infos, writer, ti, resolved,
                   callLog>>

Next ==
    \/ CreateLogsFilterOk
    \/ CreateLogsFilterErr
    \/ FetchLogsOk
    \/ FetchLogsErr
    \/ ParseEntry
    \/ CheckToken0
    \/ CheckToken1
    \/ CallName
    \/ CallSymbol
    \/ InsertTokenInfo
    \/ BuildRecord
    \/ WriteFile

Spec == Init /\ [][Next]_vars

----------------------------------------------------------------------------
\* Vocabulary of the properties

InEntry == {"check0", "name", "symbol", "insert", "check1", "build"}

Decodes(raw) == parse_log(raw).ok

\* The indexes, in order, of the entries among the first n that decode.
RECURSIVE DecodedIdx(_, _)
DecodedIdx(logs, n) ==
    IF n = 0 THEN <<>>
    ELSE IF Decodes(logs[n])
         THEN Append(DecodedIdx(logs, n - 1), n)
         ELSE DecodedIdx(logs, n - 1)

\* The token addresses the raw topics of the decodable entries among the
\* first n carry.
RawTokens(logs, n) ==
    UNION { {logs[k].topics[2], logs[k].topics[3]} :
              k \in {j \in 1..n : Decodes(logs[j])} }

Occurrences(seq, x) == Cardinality({k \in 1..Len(seq) : seq[k] = x})

\* The record lines of a csv buffer, in order.
RecordsOf(buf) == SelectSeq(buf, LAMBDA ln : ln.kind = "record")

HeadersOf(buf) == SelectSeq(buf, LAMBDA ln : ln.kind = "header")

\* The queries issued to the contract of addr for a method.
CallsTo(addr, method) ==
    {k \in 1..Len(callLog) :
        callLog[k].addr = addr /\ callLog[k].method = method}

\* The (address, name, symbol) triples a record carries.
TokenViews(rec) ==
    { <<rec.token0_addr, rec.token0_name, rec.token0_symbol>>,
      <<rec.token1_addr, rec.token1_name, rec.token1_symbol>> }

AllViews(buf) ==
    UNION { TokenViews(RecordsOf(buf)[k].rec) : k \in 1..Len(RecordsOf(buf)) }

\* Record k of the buffer comes from the k-th decodable entry.
SourceOf(k) == l[DecodedIdx(l, Len(l))[k]]

----------------------------------------------------------------------------
\* C1: over one run, get_token_info is invoked exactly once for every
\* distinct token address of a decodable entry and never for another
\* address, so the number of resolutions is the number of distinct token
\* addresses among the decodable entries.
C1_ResolveOncePerDistinctToken ==
    /\ \A a \in AllAddrs : Occurrences(resolved, a) <= 1
    /\ \A k \in 1..Len(resolved) :
         resolved[k] \in RawTokens(l, IF pc \in InEntry THEN i + 1 ELSE i)
    /\ \A a \in RawTokens(l, i) : Occurrences(resolved, a) = 1
    /\ pc = "done" =>
         /\ {resolved[k] : k \in 1..Len(resolved)} = RawTokens(l, Len(l))
         /\ Len(resolved) = Cardinality(RawTokens(l, Len(l)))

\* Two decodable entries sharing one token and a malformed one: three
\* resolutions.
C1_Witness ==
    /\ pc = "done"
    /\ Len(l) = 3
    /\ Len(DecodedIdx(l, 3)) = 2
    /\ Cardinality(RawTokens(l, 3)) = 3
    /\ Len(resolved) = 3

\* C2: on a cache hit no name/symbol query is issued and the stored entry
\* stays as it is; an entry of token_infos is never overwritten or removed,
\* so all records that reference an address carry the same name and symbol.
C2_CacheHitFrame ==
    [][ /\ \A a \in DOMAIN token_infos :
             a \in DOMAIN token_infos' /\ token_infos'[a] = token_infos[a]
        /\ (pc = "check0" /\ pce.token0 \in DOMAIN token_infos) =>
             /\ callLog' = callLog
             /\ resolved' = resolved
             /\ pc' = "check1"
        /\ (pc = "check1" /\ pce.token1 \in DOMAIN token_infos) =>
             /\ callLog' = callLog
             /\ resolved' = resolved
             /\ pc' = "build"
        /\ \A v, w \in AllViews(writer.buf') : v[1] = w[1] => v = w
      ]_vars

\* Two records share a token that was resolved once, with a failed query.
C2_Witness ==
    /\ pc = "done"
    /\ Len(RecordsOf(pools_csv)) >= 2
    /\ RecordsOf(pools_csv)[1].rec.token1_addr
         = RecordsOf(pools_csv)[2].rec.token0_addr
    /\ RecordsOf(pools_csv)[1].rec.token1_name = ""
    /\ Len(resolved) = 3

\* C3: the serialized records are the decodable entries, one record each,
\* in source order; an entry that fails to decode gives no record, no
\* resolution and no cache change, and the loop goes on with the next one.
C3_RecordsAreDecodedEntriesInOrder ==
    [][ /\ LET recs == RecordsOf(writer.buf')
               idx == DecodedIdx(l', i')
           IN /\ Len(recs) = Len(idx)
              /\ \A k \in 1..Len(recs) :
                   /\ recs[k].rec.pool_addr = l'[idx[k]].data[2]
                   /\ recs[k].rec.token0_addr = l'[idx[k]].topics[2]
                   /\ recs[k].rec.token1_addr = l'[idx[k]].topics[3]
                   /\ recs[k].rec.fee = l'[idx[k]].topics[4]
        /\ (pc = "loop" /\ i < Len(l) /\ ~Decodes(l[i + 1])) =>
             /\ writer' = writer
             /\ token_infos' = token_infos
             /\ resolved' = resolved
             /\ callLog' = callLog
             /\ pc' \in {"loop", "done"}
             /\ pc' = "loop" => i' = i + 1
        /\ pc' = "done" =>
             /\ i' = Len(l')
             /\ Len(RecordsOf(pools_csv'))
                  = Len(l') - Cardinality({k \in 1..Len(l') : ~Decodes(l'[k])})
      ]_vars

\* A malformed entry between two decodable ones: two records, in order.
C3_Witness ==
    /\ pc = "done"
    /\ Len(l) = 3
    /\ Decodes(l[1]) /\ ~Decodes(l[2]) /\ Decodes(l[3])
    /\ l[1].data[2] # l[3].data[2]
    /\ Len(RecordsOf(pools_csv)) = 2

\* C4: get_token_info always returns a TokenInfo; a failed name or symbol
\* query empties that field only, the other keeps what its query returned;
\* the run does not abort and the entry's record is still emitted.
C4_FailedQueryEmptiesOnlyItsField ==
    /\ \A a \in DOMAIN token_infos :
         /\ CallsTo(a, "name") # {} /\ CallsTo(a, "symbol") # {}
         /\ \A k \in CallsTo(a, "name") :
              token_infos[a].name =
                 IF callLog[k].res.ok THEN ContractName(a) ELSE ""
         /\ \A k \in CallsTo(a, "symbol") :
              token_infos[a].symbol =
                 IF callLog[k].res.ok THEN ContractSymbol(a) ELSE ""
         /\ token_infos[a].address = a
    /\ pc = "aborted" => callLog = <<>>
    /\ pc \in {"loop", "done"} =>
         /\ Len(RecordsOf(writer.buf)) = Len(DecodedIdx(l, i))
         /\ \A k \in 1..Len(RecordsOf(writer.buf)) :
              LET rec == RecordsOf(writer.buf)[k].rec
              IN /\ rec.token0_name = token_infos[rec.token0_addr].name
                 /\ rec.token0_symbol = token_infos[rec.token0_addr].symbol
                 /\ rec.token1_name = token_infos[rec.token1_addr].name
                 /\ rec.token1_symbol = token_infos[rec.token1_addr].symbol

\* A record whose token0 has its name and an empty symbol (the symbol
\* query failed) and whose token1 has an empty name and its symbol.
C4_Witness ==
    /\ pc = "done"
    /\ \E k \in 1..Len(RecordsOf(pools_csv)) :
         LET rec == RecordsOf(pools_csv)[k].rec
         IN /\ rec.token0_name = ContractName(rec.token0_addr)
            /\ rec.token0_symbol = ""
            /\ rec.token1_name = ""
            /\ rec.token1_symbol = ContractSymbol(rec.token1_addr)

\* C5: whenever from_pool_created_event is called, token0 and token1 of the
\* event are keys of token_infos, so no lookup fails and the construction
\* never aborts the run.
C5_BothTokensCachedAtConstruction ==
    /\ pc = "build" =>
         /\ pce.token0 \in DOMAIN token_infos
         /\ pce.token1 \in DOMAIN token_infos
    /\ pc = "aborted" => (i = 0 /\ l = <<>> /\ resolved = <<>>)

\* Construction with token0 = token1 whose queries both failed.
C5_Witness ==
    /\ pc = "build"
    /\ pce.token0 = pce.token1
    /\ pce.token0 \in DOMAIN token_infos
    /\ token_infos[pce.token0].name = ""
    /\ token_infos[pce.token0].symbol = ""

\* C6: for every entry that decodes, from_log yields an event whose token0,
\* token1, fee, tick spacing and pool equal the decoded parameters.
C6_FromLogPopulatesEveryField ==
    pc \in InEntry =>
       /\ pce.token0 = l[i + 1].topics[2]
       /\ pce.token1 = l[i + 1].topics[3]
       /\ pce.fee = l[i + 1].topics[4]
       /\ pce.tick_spacing = l[i + 1].data[1]
       /\ pce.pool = l[i + 1].data[2]

\* C7, as stated: with no log entry the run completes, resolves nothing
\* and writes a file that holds the header row only.
C7_EmptyRunWritesHeaderOnly ==
    (pc = "done" /\ Len(l) = 0) =>
       /\ fs_writes = 1
       /\ resolved = <<>> /\ callLog = <<>>
       /\ Len(pools_csv) = 1
       /\ pools_csv[1].kind = "header"

\* C7, amended: with no log entry the run completes, resolves nothing and
\* writes an empty file: no data row and no header row either, the header
\* being written with the first record only.
C7_EmptyRunWritesEmptyFile ==
    (pc = "done" /\ Len(l) = 0) =>
       /\ fs_writes = 1
       /\ resolved = <<>> /\ callLog = <<>>
       /\ Len(pools_csv) = 0

\* The run over no entry has ended.
C7_Witness ==
    /\ pc = "done"
    /\ Len(chain) = 0
    /\ Len(l) = 0
    /\ fs_writes = 1

\* C8: on a miss the name query and then the symbol query complete before
\* the address is inserted; no address is a key of token_infos while its
\* resolution is in progress or with a field not set from its query.
C8_InsertAfterBothQueries ==
    /\ pc \in {"name", "symbol", "insert"} => ti.addr \notin DOMAIN token_infos
    /\ pc = "name" => (ti.name = Unset /\ ti.symbol = Unset)
    /\ pc = "symbol" => (ti.name # Unset /\ ti.symbol = Unset)
    /\ pc = "insert" => (ti.name # Unset /\ ti.symbol # Unset)
    /\ \A a \in DOMAIN token_infos :
         \E kn \in CallsTo(a, "name"), ks \in CallsTo(a, "symbol") :
            /\ kn < ks
            /\ token_infos[a].name = unwrap_or_default(callLog[kn].res)
            /\ token_infos[a].symbol = unwrap_or_default(callLog[ks].res)
            /\ token_infos[a].name # Unset
            /\ token_infos[a].symbol # Unset

\* A resolution that has both answers and is about to insert, next to an
\* entry already in the cache.
C8_Witness ==
    /\ pc = "insert"
    /\ ti.name # Unset /\ ti.symbol # Unset
    /\ ti.addr \notin DOMAIN token_infos
    /\ DOMAIN token_infos # {}

\* C9: the block_number of a record is the block number of the raw entry it
\* was decoded from, and 0 when the raw entry has none; such an entry is
\* still emitted.
C9_BlockNumberFromRawEntry ==
    LET recs == RecordsOf(writer.buf)
        idx == DecodedIdx(l, i)
    IN /\ Len(recs) = Len(idx)
       /\ \A k \in 1..Len(recs) :
            /\ l[idx[k]].block_number # None =>
                 recs[k].rec.block_number = l[idx[k]].block_number[1]
            /\ l[idx[k]].block_number = None =>
                 recs[k].rec.block_number = 0

\* Two records of entries with the same parameters and different blocks,
\* and a record of an entry without a block number.
C9_Witness ==
    /\ pc = "done"
    /\ Len(l) = 3
    /\ \A k \in 1..3 : Decodes(l[k])
    /\ l[1].topics = l[2].topics /\ l[1].data = l[2].data
    /\ l[1].block_number # l[2].block_number
    /\ l[3].block_number = None
    /\ Len(RecordsOf(pools_csv)) = 3
    /\ RecordsOf(pools_csv)[3].rec.block_number = 0

\* C10: pools.csv is written at most once, and only after every fetched
\* entry has been processed; a run that aborts never writes it.
C10_FileWrittenOnceAtEnd ==
    /\ fs_writes <= 1
    /\ fs_writes = 1 => (pc = "done" /\ i = Len(l))
    /\ pc = "done" => fs_writes = 1
    /\ fs_writes = 0 => pools_csv = <<>>
    /\ pc = "aborted" => fs_writes = 0
    /\ pc \in InEntry \cup {"create_filter", "fetch_logs"} => fs_writes = 0

\* The file was written after a run over decodable and malformed entries.
C10_Witness ==
    /\ pc = "done"
    /\ fs_writes = 1
    /\ Len(l) >= 2
    /\ Len(RecordsOf(pools_csv)) >= 1
    /\ Len(RecordsOf(pools_csv)) < Len(l)

====
